---- MODULE Spec2Model ----
(***************************************************************************)
(* Model of the min-cost-flow notebook SL1_network-flow-problem.ipynb:     *)
(* the network_problem class, its incidence operator Nabla, pathfinder,    *)
(* mincostflow, shortestPathLP and shortestPathDP.                         *)
(*                                                                         *)
(* Python lists are modelled as TLA+ sequences, so every Python index i    *)
(* is the position i+1 here (node index 0 of the notebook is node index 1  *)
(* of the model).  Dictionaries are functions whose DOMAIN is the key set; *)
(* a lookup outside the DOMAIN is Python's KeyError.                       *)
(***************************************************************************)
EXTENDS Integers, Sequences, FiniteSets, TLC

VARIABLES
    nodesList, arcsList, costsList,   \* network_problem fields
    nbNodes, nbArcs, nodesDict, arcsDict,
    pc,                               \* position of the running query
    origin_node, destination_node,    \* arguments of the shortest path query
    successor, C_z, update, k,        \* locals of shortestPathDP
    passes,                           \* number of executions of the while body
    z, path,                          \* path under construction
    dpResult,                         \* outcome of shortestPathDP
    q, mu, arcs_active, current,      \* locals of shortestPathLP / pathfinder
    sind, tind, status,
    pfResult,                         \* outcome of pathfinder / shortestPathLP
    ctorArgs, ctorResult,             \* arguments and outcome of network_problem(...)
    nablaResult,                      \* outcome of Nabla()
    p_z, mcfResult,                   \* outcome of a direct mincostflow call
    solved,                           \* the LP the solver answered last, with its answer
    calls, firstResult,               \* direct mincostflow calls done, outcome of the first
    t2                                \* locals and outcome of a pathfinder call of a second thread

graphVars == <<nodesList, arcsList, costsList, nbNodes, nbArcs, nodesDict, arcsDict>>
dpVars    == <<origin_node, destination_node, successor, C_z, update, k, passes, dpResult>>
pfVars    == <<q, mu, arcs_active, current, sind, tind, status, pfResult>>
repVars   == <<solved, calls, firstResult>>
callVars  == <<ctorArgs, ctorResult, nablaResult, p_z, mcfResult, repVars, t2>>
vars      == <<graphVars, pc, dpVars, z, path, pfVars, callVars>>

----------------------------------------------------------------------------
(* Bounds of the model                                                     *)

MaxArcs   == 2     \* largest arc count of the enumerated networks
MaxCost   == 1     \* arc costs of the enumerated networks range over -1 .. MaxCost
MaxFlow   == 2     \* flow values range over 0 .. MaxFlow
MaxPasses == 5     \* passes of the relaxation loop that are explored

----------------------------------------------------------------------------
(* Values                                                                  *)

Inf  == 1000000          \* np.inf
None == "None"           \* Python's None

\* node labels of the enumerated networks
Labels == <<"a", "b", "c">>

Range(s) == {s[i] : i \in 1..Len(s)}

Max(S) == CHOOSE m \in S : \A n \in S : n <= m
Min(S) == CHOOSE m \in S : \A n \in S : m <= n

\* d + c for a finite d and a c that may be np.inf
Plus(d, c) == IF c = Inf THEN Inf ELSE d + c

----------------------------------------------------------------------------
(* network_problem.__init__                                                *)

\* {node:node_ind for (node,node_ind) in zip(nodesList,range(nbNodes))}:
\* a later entry with the same key overwrites an earlier one.
ZipDict(keys) == [key \in Range(keys) |-> Max({i \in 1..Len(keys) : keys[i] = key})]

Constructed(nl, al, cl) ==
    /\ nbNodes = Len(nl)
    /\ nbArcs = Len(al)
    /\ nodesList = nl
    /\ arcsList = al
    /\ costsList = cl
    /\ nodesDict = ZipDict(nl)
    /\ arcsDict = ZipDict(al)

\* The stylized example of the notebook
ExampleNodes == <<"s", "u", "v", "t">>
ExampleArcs  == << <<"s","u">>, <<"u","v">>, <<"s","v">>, <<"u","t">>, <<"v","t">> >>
ExampleCosts == <<3, 1, 4, 2, 2>>

\* example_pb with its arcs (and their costs) listed in the order given by the
\* permutation perm of 1..5
ArcOrders(n) == {f \in [1..n -> 1..n] : \A i, j \in 1..n : f[i] = f[j] => i = j}
Reorder(s, perm) == [i \in 1..Len(s) |-> s[perm[i]]]

\* The enumerated networks: the first n labels as nodes, a list of at most
\* maxArcs distinct arcs without self-loops (the notebook's definition of a
\* directed graph)
NodeLists == {SubSeq(Labels, 1, n) : n \in 1..Len(Labels)}
ArcPairs(nl) == {<<x, y>> : x \in Range(nl), y \in Range(nl)} \ {<<x, x>> : x \in Range(nl)}
ArcLists(nl, maxArcs) ==
    UNION {{al \in [1..len -> ArcPairs(nl)] : \A i, j \in 1..len : al[i] = al[j] => i = j}
              : len \in 0..maxArcs}
CostSet == (0 - 1)..MaxCost
CostLists(len) == [1..len -> CostSet]
UnitCosts(len) == [i \in 1..len |-> 1]

\* the arc lists of ArcLists(nl, maxArcs) that list their arcs in the order of
\* the labels
ArcRank(xy) == Len(Labels) * ZipDict(Labels)[xy[1]] + ZipDict(Labels)[xy[2]]
SortedArcLists(nl, maxArcs) ==
    {al \in ArcLists(nl, maxArcs) : \A i, j \in 1..Len(al) : i < j => ArcRank(al[i]) < ArcRank(al[j])}

----------------------------------------------------------------------------
(* Initial states: a constructed network_problem, no query running         *)

NoResult == [status |-> "none", path |-> <<>>, cost |-> 0]
NoNabla  == [status |-> "none", matrix |-> <<>>]
NoFlow   == [status |-> "none", p |-> <<>>, mu |-> <<>>]
NoCall   == [pc |-> "idle", mu |-> <<>>, sind |-> 0, tind |-> 0, arcs_active |-> <<>>,
             current |-> None, path |-> <<>>, result |-> NoResult]
NoLP     == [lp |-> <<>>, answer |-> [status |-> "none", p |-> <<>>, mu |-> <<>>]]

Idle ==
    /\ pc = "idle"
    /\ origin_node = 0 /\ destination_node = 0
    /\ successor = <<>> /\ C_z = <<>> /\ update = FALSE /\ k = 0 /\ passes = 0
    /\ z = None /\ path = <<>>
    /\ dpResult = NoResult
    /\ q = <<>> /\ mu = <<>> /\ arcs_active = <<>> /\ current = None
    /\ sind = 0 /\ tind = 0 /\ status = "none"
    /\ pfResult = NoResult
    /\ ctorArgs = <<nodesList, arcsList, costsList>>
    /\ ctorResult = "built"
    /\ nablaResult = NoNabla
    /\ p_z = <<>> /\ mcfResult = NoFlow
    /\ solved = NoLP /\ calls = 0 /\ firstResult = NoFlow
    /\ t2 = NoCall

\* example_pb, example_pb with its arcs listed in another order, or a
\* network_problem built from an enumerated graph with costs
Init ==
    /\ \/ \E perm \in ArcOrders(Len(ExampleArcs)) :
              Constructed(ExampleNodes, Reorder(ExampleArcs, perm), Reorder(ExampleCosts, perm))
       \/ \E nl \in NodeLists : \E al \in ArcLists(nl, MaxArcs) : \E cl \in CostLists(Len(al)) :
              Constructed(nl, al, cl)
    /\ Idle

\* The arc lists a caller can hand to the constructor: at most maxArcs pairs of
\* labels, with nothing ruled out (a pair may occur twice, may name a label
\* that is not in the node list, may have equal ends)
ArcArgs(maxArcs) == UNION {[1..len -> Range(Labels) \X Range(Labels)] : len \in 0..maxArcs}

\* before network_problem(...) is called: no object, no fields
Unbuilt ==
    /\ pc = "new"
    /\ nodesList = <<>> /\ arcsList = <<>> /\ costsList = <<>>
    /\ nbNodes = 0 /\ nbArcs = 0 /\ nodesDict = <<>> /\ arcsDict = <<>>
    /\ origin_node = 0 /\ destination_node = 0
    /\ successor = <<>> /\ C_z = <<>> /\ update = FALSE /\ k = 0 /\ passes = 0
    /\ z = None /\ path = <<>>
    /\ dpResult = NoResult
    /\ q = <<>> /\ mu = <<>> /\ arcs_active = <<>> /\ current = None
    /\ sind = 0 /\ tind = 0 /\ status = "none"
    /\ pfResult = NoResult
    /\ ctorArgs = <<>>
    /\ ctorResult = "none"
    /\ nablaResult = NoNabla
    /\ p_z = <<>> /\ mcfResult = NoFlow
    /\ solved = NoLP /\ calls = 0 /\ firstResult = NoFlow
    /\ t2 = NoCall

\* lines 165-174: network_problem(nodesList, arcsList, costsList).  The body
\* is seven assignments; it tests nothing and raises nothing.
NP_Init ==
    /\ pc = "new"
    /\ \E nl \in NodeLists : \E al \in ArcArgs(MaxArcs) :
         LET cl == UnitCosts(Len(al))
         IN  /\ ctorArgs' = <<nl, al, cl>>
             /\ nbNodes' = Len(nl)
             /\ nbArcs' = Len(al)
             /\ nodesList' = nl
             /\ arcsList' = al
             /\ costsList' = cl
             /\ nodesDict' = ZipDict(nl)
             /\ arcsDict' = ZipDict(al)
    /\ ctorResult' = "built"
    /\ pc' = "idle"
    /\ UNCHANGED <<dpVars, z, path, pfVars, nablaResult, p_z, mcfResult, repVars, t2>>

----------------------------------------------------------------------------
(* network_problem_shortestPathDP                                          *)

\* the test of line 916 with <= in place of <
RelaxTest_NonStrict(d, cy, cx) == Plus(d, cy) <= cx

\* the test of line 916 with > in place of <
RelaxTest_Reversed(d, cy, cx) == Plus(d, cy) > cx

\* line 916: d_xy[arcsDict[(x,y)]] + C_z[yind] < C_z[xind]
RelaxTest(d, cy, cx) == Plus(d, cy) < cx

\* line 918 with the cost-to-go of y left out
RelaxCost_ArcOnly(d, cy) == d

\* line 918: the new value of C_z[xind]
RelaxCost(d, cy) == Plus(d, cy)

\* line 919 recording the origin of the arc
RelaxSuccessor_Origin(x, y) == x

\* line 919: the new value of successor[x] on relaxing arc (x,y)
RelaxSuccessor(x, y) == y

\* lines 906-911: the locals before the while loop.  origin_node is not read
\* before line 921; its value is drawn there.
DP_Call ==
    /\ pc = "idle"
    /\ \E d \in 1..nbNodes : destination_node' = d
    /\ successor' = [n \in Range(nodesList) |-> None]
    /\ C_z' = [i \in 1..nbNodes |-> IF i = destination_node' THEN 0 ELSE Inf]
    /\ update' = TRUE
    /\ pc' = "dp_while"
    /\ UNCHANGED <<graphVars, callVars, origin_node, k, passes, dpResult, z, path, pfVars>>

\* lines 912-914: the while test succeeds, a new pass over arcsList starts
DP_While ==
    /\ pc = "dp_while"
    /\ update
    /\ passes < MaxPasses
    /\ update' = FALSE
    /\ passes' = passes + 1
    /\ k' = 1
    /\ pc' = IF nbArcs = 0 THEN "dp_while" ELSE "dp_for"
    /\ UNCHANGED <<graphVars, callVars, origin_node, destination_node, successor, C_z, dpResult,
                   z, path, pfVars>>

\* lines 914-919 with update = False inside the for loop: an arc that is not
\* relaxed resets the flag
DP_For_ResetsUpdate ==
    /\ pc = "dp_for"
    /\ LET x    == arcsList[k][1]
           y    == arcsList[k][2]
           xind == nodesDict[x]
           yind == nodesDict[y]
           d    == costsList[arcsDict[<<x, y>>]]
       IN  IF RelaxTest(d, C_z[yind], C_z[xind])
           THEN /\ update' = TRUE
                /\ C_z' = [C_z EXCEPT ![xind] = RelaxCost(d, C_z[yind])]
                /\ successor' = [successor EXCEPT ![x] = RelaxSuccessor(x, y)]
           ELSE update' = FALSE /\ UNCHANGED <<C_z, successor>>
    /\ IF k = nbArcs THEN pc' = "dp_while" /\ k' = k
                     ELSE pc' = "dp_for" /\ k' = k + 1
    /\ UNCHANGED <<graphVars, callVars, origin_node, destination_node, passes, dpResult,
                   z, path, pfVars>>

\* lines 914-919 without line 917: a relaxation does not set update
DP_For_NoUpdateFlag ==
    /\ pc = "dp_for"
    /\ LET x    == arcsList[k][1]
           y    == arcsList[k][2]
           xind == nodesDict[x]
           yind == nodesDict[y]
           d    == costsList[arcsDict[<<x, y>>]]
       IN  IF RelaxTest(d, C_z[yind], C_z[xind])
           THEN /\ update' = update
                /\ C_z' = [C_z EXCEPT ![xind] = RelaxCost(d, C_z[yind])]
                /\ successor' = [successor EXCEPT ![x] = RelaxSuccessor(x, y)]
           ELSE UNCHANGED <<update, C_z, successor>>
    /\ IF k = nbArcs THEN pc' = "dp_while" /\ k' = k
                     ELSE pc' = "dp_for" /\ k' = k + 1
    /\ UNCHANGED <<graphVars, callVars, origin_node, destination_node, passes, dpResult,
                   z, path, pfVars>>

\* lines 914-919: the loop body for the arc at position k
DP_For ==
    /\ pc = "dp_for"
    /\ LET x    == arcsList[k][1]
           y    == arcsList[k][2]
           xind == nodesDict[x]
           yind == nodesDict[y]
           d    == costsList[arcsDict[<<x, y>>]]
       IN  IF RelaxTest(d, C_z[yind], C_z[xind])
           THEN /\ update' = TRUE
                /\ C_z' = [C_z EXCEPT ![xind] = RelaxCost(d, C_z[yind])]
                /\ successor' = [successor EXCEPT ![x] = RelaxSuccessor(x, y)]
           ELSE UNCHANGED <<update, C_z, successor>>
    /\ IF k = nbArcs THEN pc' = "dp_while" /\ k' = k
                     ELSE pc' = "dp_for" /\ k' = k + 1
    /\ UNCHANGED <<graphVars, callVars, origin_node, destination_node, passes, dpResult,
                   z, path, pfVars>>

\* lines 921-922: the while loop has ended; the path starts at the origin
DP_Extract ==
    /\ pc = "dp_while"
    /\ ~update
    /\ \E o \in 1..nbNodes : origin_node' = o
    /\ z' = nodesList[origin_node']
    /\ path' = <<z'>>
    /\ pc' = "dp_follow"
    /\ UNCHANGED <<graphVars, callVars, destination_node, successor, C_z, update, k, passes,
                   dpResult, pfVars>>

\* lines 923-929: one evaluation of the while test successor[z] != destination,
\* followed by the loop body or by the return
DP_Follow ==
    /\ pc = "dp_follow"
    /\ IF z \notin DOMAIN successor
       THEN \* successor[None] raises KeyError
            /\ dpResult' = [status |-> "KeyError", path |-> <<>>, cost |-> 0]
            /\ pc' = "dp_done"
            /\ UNCHANGED <<z, path>>
       ELSE IF successor[z] # nodesList[destination_node]
       THEN /\ z' = successor[z]
            /\ path' = Append(path, successor[z])
            /\ UNCHANGED <<pc, dpResult>>
       ELSE /\ path' = Append(path, nodesList[destination_node])
            /\ dpResult' = [status |-> "returned", path |-> path',
                            cost |-> C_z[origin_node]]
            /\ pc' = "dp_done"
            /\ UNCHANGED z
    /\ UNCHANGED <<graphVars, callVars, origin_node, destination_node, successor, C_z, update, k,
                   passes, pfVars>>

----------------------------------------------------------------------------
(* Nabla                                                                   *)

\* lines 370-371 with origins and destinations exchanged
NablaEntry_Swapped(a, n) ==
      (IF nodesDict[arcsList[a][2]] = n THEN 0 - 1 ELSE 0)
    + (IF nodesDict[arcsList[a][1]] = n THEN 1 ELSE 0)

\* lines 367-372: csr_matrix adds up the data -1 at (a, origin of a) and +1 at
\* (a, destination of a)
NablaEntry(a, n) ==
      (IF nodesDict[arcsList[a][1]] = n THEN 0 - 1 ELSE 0)
    + (IF nodesDict[arcsList[a][2]] = n THEN 1 ELSE 0)

\* line 373: the nbArcs x nbNodes matrix
Nabla == [a \in 1..nbArcs |-> [n \in 1..nbNodes |-> NablaEntry(a, n)]]

\* lines 370-371: a label that is not a key of nodesDict
UnknownLabel(x) == x \notin DOMAIN nodesDict

\* lines 367-373: a call of Nabla() on the constructed object.  The lookups
\* self.nodesDict[o] and self.nodesDict[d] raise KeyError on a label that is
\* not in the node list.
Nabla_Call ==
    /\ pc = "idle"
    /\ nablaResult' =
          IF \E a \in 1..nbArcs : UnknownLabel(arcsList[a][1]) \/ UnknownLabel(arcsList[a][2])
          THEN [status |-> "KeyError", matrix |-> <<>>]
          ELSE [status |-> "returned", matrix |-> Nabla]
    /\ pc' = "nabla_done"
    /\ UNCHANGED <<graphVars, dpVars, z, path, pfVars, ctorArgs, ctorResult, p_z, mcfResult,
                   repVars, t2>>

\* sum of f(i) for i in lo..hi
RECURSIVE Sum(_, _, _)
Sum(f(_), lo, hi) == IF lo > hi THEN 0 ELSE f(lo) + Sum(f, lo + 1, hi)

\* entry n of Nabla.transpose() * m: the net flow into node n
NetFlow(m, n) == LET term(a) == NablaEntry(a, n) * m[a] IN Sum(term, 1, nbArcs)

\* entry a of Nabla @ p: the potential difference along arc a
PotentialDiff(p, a) == LET term(n) == NablaEntry(a, n) * p[n] IN Sum(term, 1, nbNodes)

----------------------------------------------------------------------------
(* network_problem_mincostflow: the LP  max q@p  s.t.  Nabla@p <= costsList *)
(* handed to the solver, and what m.optimize() can answer                  *)

Flows == [1..nbArcs -> 0..MaxFlow]

\* the solutions of the LP: potentials p with Nabla @ p <= costsList.  Costs
\* are at least -1, so if any p satisfies the constraints, one with values
\* in -(nbNodes-1)..0 does (the least cost of a walk into each node).
Potentials == [1..nbNodes -> (1 - nbNodes)..0]
DualFeasible == \E p \in Potentials : \A a \in 1..nbArcs : PotentialDiff(p, a) <= costsList[a]

\* the flows that are feasible for the LP of which the model is the dual
FeasibleFlows(qq) == {m \in Flows : \A n \in 1..nbNodes : NetFlow(m, n) = qq[n]}

FlowCost(m) == LET term(a) == costsList[a] * m[a] IN Sum(term, 1, nbArcs)

OptimalFlows(qq) ==
    LET feasible == FeasibleFlows(qq)
        best     == Min({FlowCost(m) : m \in feasible})
    IN  {m \in feasible : FlowCost(m) = best}

\* the constraint rows with a positive shadow price in a basic solution are
\* linearly independent rows of Nabla: the arcs carrying flow contain no
\* cycle, whatever the direction of the arcs (every non-empty set of them has
\* a node that meets exactly one of its arcs)
Basic(m) ==
    LET supp == {a \in 1..nbArcs : m[a] # 0}
        deg(S, n) == Cardinality({a \in S : NablaEntry(a, n) # 0})
    IN  \A S \in SUBSET supp : S # {} => \E n \in 1..nbNodes : deg(S, n) = 1

\* m.getAttr('pi') after an OPTIMAL status: the shadow prices of a basic
\* optimal solution
ShadowPrices(qq) == {m \in OptimalFlows(qq) : Basic(m)}

\* m.status after m.optimize()
Status(qq) ==
    IF ~DualFeasible THEN {"INFEASIBLE", "INF_OR_UNBD"}
    ELSE IF FeasibleFlows(qq) = {} THEN {"UNBOUNDED", "INF_OR_UNBD"}
    ELSE {"OPTIMAL"}

\* line 684 with the objective minimized: the maximum of -(q @ p)
Objective_Minimized(qq, p) == LET term(n) == (0 - qq[n]) * p[n] IN Sum(term, 1, nbNodes)

\* line 684: the objective q @ p
Objective(qq, p) == LET term(n) == qq[n] * p[n] IN Sum(term, 1, nbNodes)

\* line 685 with >= in place of <=
LPConstraint_Reversed(p, a) == PotentialDiff(p, a) >= costsList[a]

\* line 685: row a of the constraint Nabla @ p <= costsList
LPConstraint(p, a) == PotentialDiff(p, a) <= costsList[a]

\* the values of p the solver may report.  The LP is invariant under adding a
\* constant to p, and when it has an optimal solution it has one whose entries
\* are costs of walks of at most nbNodes - 1 arcs, forwards or backwards, from
\* a node of potential 0: the grid holds the solutions with entries from
\* -(nbNodes - 1) * max|c| to 0.
PotentialGrid ==
    LET absCost(a) == IF costsList[a] < 0 THEN 0 - costsList[a] ELSE costsList[a]
        R == (nbNodes - 1) * Max({absCost(a) : a \in 1..nbArcs} \cup {0})
    IN  [1..nbNodes -> (0 - R)..0]

\* m.getAttr('x') after an OPTIMAL status: a p that satisfies the constraint
\* and attains the maximum of the objective
OptimalPotentials(qq) ==
    LET feasible == {p \in PotentialGrid : \A a \in 1..nbArcs : LPConstraint(p, a)}
        best     == Max({Objective(qq, p) : p \in feasible})
    IN  {p \in feasible : Objective(qq, p) = best}

\* the total supply and the sum of a demand vector
Supply(qq) == LET term(n) == IF qq[n] < 0 THEN 0 - qq[n] ELSE 0 IN Sum(term, 1, nbNodes)
Total(qq) == LET term(n) == qq[n] IN Sum(term, 1, nbNodes)

\* the demand vectors of the direct calls: balanced, or one unit short or in
\* excess, with a total supply that flows of at most MaxFlow per arc can carry
Demands ==
    {qq \in [1..nbNodes -> (0 - MaxFlow)..MaxFlow] :
        Supply(qq) <= MaxFlow /\ Total(qq) \in {0 - 1, 0, 1}}

\* a direct call mincostflow(q)
MCF_Call ==
    /\ pc = "idle"
    /\ \E qq \in Demands : q' = qq
    /\ pc' = "mcf_run"
    /\ UNCHANGED <<graphVars, callVars, dpVars, z, path, mu, arcs_active, current,
                   sind, tind, status, pfResult>>

\* what m.optimize() can answer to the LP of the current graph and of qq: a
\* status and, under OPTIMAL, the values behind getAttr('x') and getAttr('pi')
Answers(qq) ==
    UNION {IF st = "OPTIMAL"
           THEN {[status |-> st, p |-> p, mu |-> m] :
                     p \in OptimalPotentials(qq), m \in ShadowPrices(qq)}
           ELSE {[status |-> st, p |-> <<>>, mu |-> <<>>]}
              : st \in Status(qq)}

\* lines 680-685: what the solver is handed, the rows of Nabla, the right-hand
\* sides and the objective
LP(qq) == <<Nabla, costsList, qq>>

\* the solver is deterministic: handed the LP it answered last, it gives the
\* same answer again
SolverAnswers(qq) == IF solved.lp = LP(qq) THEN {solved.answer} ELSE Answers(qq)

\* lines 679-690 with q negated in place on the way
MCF_Run_NegatesQ ==
    /\ pc = "mcf_run"
    /\ \E ans \in SolverAnswers(q) :
        /\ status' = ans.status
        /\ solved' = [lp |-> LP(q), answer |-> ans]
        /\ IF ans.status = "OPTIMAL"
           THEN /\ p_z' = ans.p
                /\ mu' = ans.mu
                /\ mcfResult' = [status |-> "returned", p |-> ans.p, mu |-> ans.mu]
           ELSE /\ mcfResult' = [status |-> "UnboundLocalError", p |-> <<>>, mu |-> <<>>]
                /\ UNCHANGED <<p_z, mu>>
    /\ q' = [n \in 1..nbNodes |-> 0 - q[n]]
    /\ calls' = calls + 1
    /\ pc' = "mcf_done"
    /\ UNCHANGED <<graphVars, dpVars, z, path, arcs_active, current, sind, tind,
                   pfResult, ctorArgs, ctorResult, nablaResult, firstResult, t2>>

\* lines 679-690: the LP is built and m.optimize() runs, whatever q is; p_z and
\* mu_a are bound under status OPTIMAL only, and line 690 reads both.  No
\* field of self and no entry of q is written.
MCF_Run ==
    /\ pc = "mcf_run"
    /\ \E ans \in SolverAnswers(q) :
        /\ status' = ans.status
        /\ solved' = [lp |-> LP(q), answer |-> ans]
        /\ IF ans.status = "OPTIMAL"
           THEN /\ p_z' = ans.p
                /\ mu' = ans.mu
                /\ mcfResult' = [status |-> "returned", p |-> ans.p, mu |-> ans.mu]
           ELSE /\ mcfResult' = [status |-> "UnboundLocalError", p |-> <<>>, mu |-> <<>>]
                /\ UNCHANGED <<p_z, mu>>
    /\ calls' = calls + 1
    /\ pc' = "mcf_done"
    /\ UNCHANGED <<graphVars, dpVars, z, path, q, arcs_active, current, sind, tind,
                   pfResult, ctorArgs, ctorResult, nablaResult, firstResult, t2>>

\* the same call again: mincostflow(q) with the q of the first call, on the
\* same object
MCF_Repeat ==
    /\ pc = "mcf_done"
    /\ calls = 1
    /\ firstResult' = mcfResult
    /\ pc' = "mcf_run"
    /\ UNCHANGED <<graphVars, dpVars, z, path, pfVars, ctorArgs, ctorResult, nablaResult,
                   p_z, mcfResult, solved, calls, t2>>

----------------------------------------------------------------------------
(* network_problem_shortestPathLP                                          *)

\* lines 758-759 with the two signs exchanged
UnitDemand_Swapped(o, d) ==
    LET q0 == [n \in 1..nbNodes |-> 0]
        q1 == [q0 EXCEPT ![o] = 1]
    IN  [q1 EXCEPT ![d] = 0 - 1]

\* lines 757-759: q = zeros; q[origin_node] = -1; q[destination_node] = 1
UnitDemand(o, d) ==
    LET q0 == [n \in 1..nbNodes |-> 0]
        q1 == [q0 EXCEPT ![o] = 0 - 1]
    IN  [q1 EXCEPT ![d] = 1]

\* the notebook runs shortestPathLP on the origin and destination of the
\* preceding shortestPathDP call
LP_Call ==
    /\ pc = "dp_done"
    /\ q' = UnitDemand(origin_node, destination_node)
    /\ pc' = "lp_mcf"
    /\ UNCHANGED <<graphVars, callVars, dpVars, z, path, mu, arcs_active, current, sind, tind,
                   status, pfResult>>

\* line 760, lines 679-690: mincostflow(q); p_z is dropped by the caller.  With
\* a status other than OPTIMAL, p_z and mu_a are unbound at line 690.
LP_Mincostflow ==
    /\ pc = "lp_mcf"
    /\ \E st \in Status(q) :
        /\ status' = st
        /\ IF st = "OPTIMAL"
           THEN /\ \E m \in ShadowPrices(q) : mu' = m
                /\ sind' = origin_node
                /\ tind' = destination_node
                /\ pc' = "pf_begin"
                /\ UNCHANGED pfResult
           ELSE /\ pfResult' = [status |-> "UnboundLocalError", path |-> <<>>, cost |-> 0]
                /\ pc' = "pf_done"
                /\ UNCHANGED <<mu, sind, tind>>
    /\ UNCHANGED <<graphVars, callVars, dpVars, z, path, q, arcs_active, current>>

----------------------------------------------------------------------------
(* pathfinder                                                              *)

\* the test of line 591 with >= in place of >
IsActive_NonNegative(m) == m >= 0

\* line 591: the test that keeps an arc in arcs_active
IsActive(m) == m > 0

\* line 598 left out: nothing is removed
Remove_Nothing(s, e) == s

\* line 598 as i = arcs_active.index(e); if i: del arcs_active[i], which
\* keeps an arc found at index 0
Remove_UnlessFirst(s, e) ==
    LET hits == {i \in 1..Len(s) : s[i] = e}
    IN  IF hits = {} \/ Min(hits) = 1 THEN s
        ELSE SubSeq(s, 1, Min(hits) - 1) \o SubSeq(s, Min(hits) + 1, Len(s))

\* list.remove: drops the first element equal to e
RECURSIVE Remove(_, _)
Remove(s, e) == IF s = <<>> THEN <<>>
                ELSE IF s[1] = e THEN Tail(s)
                ELSE <<s[1]>> \o Remove(Tail(s), e)

\* line 595 testing the destination of the arc
Candidates_ByDestination(active, cur) == {i \in 1..Len(active) : active[i][2] = cur}

\* line 595: the positions of arcs_active whose origin is the current node
Candidates(active, cur) == {i \in 1..Len(active) : active[i][1] = cur}

\* line 595: next(...) takes the first of them
Pick(active, cur) == active[Min(Candidates(active, cur))]

\* a direct call pathfinder(mu, sind, tind)
PF_Call ==
    /\ pc = "idle"
    /\ \E m \in Flows : mu' = m
    /\ \E s \in 1..nbNodes : sind' = s
    /\ \E t \in 1..nbNodes : tind' = t
    /\ pc' = "pf_begin"
    /\ UNCHANGED <<graphVars, callVars, dpVars, z, path, q, arcs_active, current, status, pfResult>>

\* lines 590-593 with the path starting empty
PF_Begin_EmptyPath ==
    /\ pc = "pf_begin"
    /\ arcs_active' = SelectSeq(arcsList, LAMBDA a : IsActive(mu[arcsDict[a]]))
    /\ current' = nodesList[sind]
    /\ path' = <<>>
    /\ pc' = "pf_while"
    /\ UNCHANGED <<graphVars, callVars, dpVars, z, q, mu, sind, tind, status, pfResult>>

\* lines 590-593
PF_Begin ==
    /\ pc = "pf_begin"
    /\ arcs_active' = SelectSeq(arcsList, LAMBDA a : IsActive(mu[arcsDict[a]]))
    /\ current' = nodesList[sind]
    /\ path' = <<nodesList[sind]>>
    /\ pc' = "pf_while"
    /\ UNCHANGED <<graphVars, callVars, dpVars, z, q, mu, sind, tind, status, pfResult>>

\* lines 594-599: one evaluation of the while test current != t, followed by
\* the loop body or by the return
PF_While ==
    /\ pc = "pf_while"
    /\ IF current = nodesList[tind]
       THEN /\ pfResult' = [status |-> "returned", path |-> path, cost |-> 0]
            /\ pc' = "pf_done"
            /\ UNCHANGED <<path, current, arcs_active>>
       ELSE IF Candidates(arcs_active, current) = {}
       THEN \* next() on an exhausted generator raises StopIteration
            /\ pfResult' = [status |-> "StopIteration", path |-> <<>>, cost |-> 0]
            /\ pc' = "pf_done"
            /\ UNCHANGED <<path, current, arcs_active>>
       ELSE LET xy == Pick(arcs_active, current)
            IN  /\ path' = Append(path, xy[2])
                /\ current' = xy[2]
                /\ arcs_active' = Remove(arcs_active, xy)
                /\ UNCHANGED <<pc, pfResult>>
    /\ UNCHANGED <<graphVars, callVars, dpVars, z, q, mu, sind, tind, status>>

----------------------------------------------------------------------------
(* pathfinder called by a second thread on the same object: the locals of  *)
(* lines 589-593 belong to the call, the fields of self are shared         *)

\* the flow vectors of the second thread's calls: pathfinder reads mu through
\* the test of line 591 only
ActiveFlags == [1..nbArcs -> 0..1]

PF2_Call ==
    /\ t2.pc = "idle"
    /\ \E m \in ActiveFlags : \E s \in 1..nbNodes : \E t \in 1..nbNodes :
           t2' = [t2 EXCEPT !.pc = "pf_begin", !.mu = m, !.sind = s, !.tind = t]
    /\ UNCHANGED <<graphVars, pc, dpVars, z, path, pfVars, ctorArgs, ctorResult, nablaResult,
                   p_z, mcfResult, repVars>>

\* lines 590-593
PF2_Begin ==
    /\ t2.pc = "pf_begin"
    /\ t2' = [t2 EXCEPT !.arcs_active = SelectSeq(arcsList, LAMBDA a : IsActive(t2.mu[arcsDict[a]])),
                        !.current = nodesList[t2.sind],
                        !.path = <<nodesList[t2.sind]>>,
                        !.pc = "pf_while"]
    /\ UNCHANGED <<graphVars, pc, dpVars, z, path, pfVars, ctorArgs, ctorResult, nablaResult,
                   p_z, mcfResult, repVars>>

\* lines 594-599 with arcs_active an alias of self.arcsList: line 598 removes
\* the arc from the graph
PF2_While_Aliased ==
    /\ t2.pc = "pf_while"
    /\ IF t2.current = nodesList[t2.tind]
       THEN /\ t2' = [t2 EXCEPT !.result = [status |-> "returned", path |-> t2.path, cost |-> 0],
                                !.pc = "pf_done"]
            /\ UNCHANGED arcsList
       ELSE IF Candidates(t2.arcs_active, t2.current) = {}
       THEN /\ t2' = [t2 EXCEPT !.result = [status |-> "StopIteration", path |-> <<>>, cost |-> 0],
                                !.pc = "pf_done"]
            /\ UNCHANGED arcsList
       ELSE LET xy == Pick(t2.arcs_active, t2.current)
            IN  /\ t2' = [t2 EXCEPT !.path = Append(t2.path, xy[2]),
                                    !.current = xy[2],
                                    !.arcs_active = Remove(t2.arcs_active, xy)]
                /\ arcsList' = Remove(arcsList, xy)
    /\ UNCHANGED <<nodesList, costsList, nbNodes, nbArcs, nodesDict, arcsDict, pc, dpVars, z,
                   path, pfVars, ctorArgs, ctorResult, nablaResult, p_z, mcfResult, repVars>>

\* lines 594-599: one evaluation of the while test, followed by the loop body
\* or by the return
PF2_While ==
    /\ t2.pc = "pf_while"
    /\ IF t2.current = nodesList[t2.tind]
       THEN t2' = [t2 EXCEPT !.result = [status |-> "returned", path |-> t2.path, cost |-> 0],
                             !.pc = "pf_done"]
       ELSE IF Candidates(t2.arcs_active, t2.current) = {}
       THEN t2' = [t2 EXCEPT !.result = [status |-> "StopIteration", path |-> <<>>, cost |-> 0],
                             !.pc = "pf_done"]
       ELSE LET xy == Pick(t2.arcs_active, t2.current)
            IN  t2' = [t2 EXCEPT !.path = Append(t2.path, xy[2]),
                                 !.current = xy[2],
                                 !.arcs_active = Remove(t2.arcs_active, xy)]
    /\ UNCHANGED <<graphVars, pc, dpVars, z, path, pfVars, ctorArgs, ctorResult, nablaResult,
                   p_z, mcfResult, repVars>>

----------------------------------------------------------------------------
(* Specifications                                                          *)

\* shortestPathDP followed by shortestPathLP on the same network and the
\* same origin and destination
Next == \/ DP_Call \/ DP_While \/ DP_For \/ DP_Extract \/ DP_Follow
        \/ LP_Call \/ LP_Mincostflow \/ PF_Begin \/ PF_While

Spec == Init /\ [][Next]_vars

\* direct calls of pathfinder with any flow vector; the costs play no role
InitPF ==
    /\ \/ Constructed(ExampleNodes, ExampleArcs, ExampleCosts)
       \/ \E nl \in NodeLists : \E al \in ArcLists(nl, MaxArcs + 1) :
              Constructed(nl, al, UnitCosts(Len(al)))
    /\ Idle

NextPF == PF_Call \/ PF_Begin \/ PF_While

SpecPF == InitPF /\ [][NextPF]_vars

\* the constructor called with any node list and arc list, then Nabla()
InitCtor == Unbuilt

NextCtor == NP_Init \/ Nabla_Call

SpecCtor == InitCtor /\ [][NextCtor]_vars

\* direct calls of mincostflow on the enumerated networks.  mincostflow reads
\* arcsList through the rows of Nabla and costsList only, so another order of
\* the arcs permutes the rows of the LP and the entries of mu: the networks
\* list their arcs in one order.
InitMCF ==
    /\ \E nl \in NodeLists : \E al \in SortedArcLists(nl, MaxArcs) : \E cl \in CostLists(Len(al)) :
           Constructed(nl, al, cl)
    /\ Idle

NextMCF == MCF_Call \/ MCF_Run

SpecMCF == InitMCF /\ [][NextMCF]_vars

\* mincostflow called twice in a row with the same q
NextMCF2 == MCF_Call \/ MCF_Run \/ MCF_Repeat

SpecMCF2 == InitMCF /\ [][NextMCF2]_vars

\* a shortestPathDP query and a pathfinder query of a second thread on one
\* shared object, their steps interleaved in any order, with no lock
InitConc ==
    /\ \E nl \in NodeLists : \E al \in SortedArcLists(nl, MaxArcs) :
           Constructed(nl, al, UnitCosts(Len(al)))
    /\ Idle

NextConc == \/ DP_Call \/ DP_While \/ DP_For \/ DP_Extract \/ DP_Follow
            \/ PF2_Call \/ PF2_Begin \/ PF2_While

SpecConc == InitConc /\ [][NextConc]_vars

----------------------------------------------------------------------------
(* Vocabulary of the properties: paths, loops and their costs as the       *)
(* notebook defines them, independently of the algorithms above            *)

ArcSet == Range(arcsList)

\* the cost listed with the arc (x,y)
ArcCost(x, y) == costsList[CHOOSE a \in 1..nbArcs : arcsList[a] = <<x, y>>]

IsPath(p) == \A i \in 1..(Len(p) - 1) : <<p[i], p[i+1]>> \in ArcSet

PathCost(p) == LET term(i) == ArcCost(p[i], p[i+1]) IN Sum(term, 1, Len(p) - 1)

\* the sequences z_1..z_K that start at x, go along arcs of A only and have
\* at most n arcs
RECURSIVE PathsIn(_, _, _)
PathsIn(A, x, n) ==
    IF n = 0 THEN {<<x>>}
    ELSE LET shorter == PathsIn(A, x, n - 1)
         IN  shorter \cup {Append(pa[1], pa[2][2]) :
                               pa \in {qa \in shorter \X A :
                                           qa[2][1] = qa[1][Len(qa[1])]}}

\* the paths from x to y with at most nbNodes arcs (every path without a
\* repeated node is one of them, and so is every loop without one)
Paths(x, y) == {p \in PathsIn(ArcSet, x, nbNodes) : p[Len(p)] = y}

\* assumption "No profitable loop"
NoNegCycle == \A x \in Range(nodesList) :
                  \A p \in Paths(x, x) : Len(p) > 1 => PathCost(p) >= 0

Reaches(o, d) == Paths(nodesList[o], nodesList[d]) # {}

MinPathCost(o, d) == Min({PathCost(p) : p \in Paths(nodesList[o], nodesList[d])})

IsExample == /\ nodesList = ExampleNodes
             /\ arcsList = ExampleArcs
             /\ costsList = ExampleCosts

----------------------------------------------------------------------------
(* Properties of shortestPathDP                                            *)

\* C1: on a graph with no negative-cost cycle and for an origin that reaches
\* the destination, the cost C_z[origin_node] with which shortestPathDP ends
\* is the least total arc cost of a path from the origin to the destination.
C1_CostIsShortest ==
    (pc = "dp_done" /\ NoNegCycle /\ Reaches(origin_node, destination_node))
        => C_z[origin_node] = MinPathCost(origin_node, destination_node)

\* a run that ended with a negative cost along a path of two arcs
C1_Witness ==
    /\ pc = "dp_done" /\ NoNegCycle
    /\ dpResult.status = "returned"
    /\ Len(dpResult.path) >= 3
    /\ C_z[origin_node] < 0

\* C2: with no negative cycle, an origin that reaches the destination and
\* origin # destination, following the successor pointers ends: the path never
\* grows beyond nbNodes nodes, no lookup fails, and the returned path starts at
\* the origin, ends at the destination, goes along arcs only and costs
\* C_z[origin_node].
C2_PathIsValid ==
    (pc \in {"dp_follow", "dp_done"} /\ origin_node # destination_node
       /\ Reaches(origin_node, destination_node) /\ NoNegCycle)
    =>  /\ pc = "dp_follow" => /\ z \in DOMAIN successor
                               /\ Len(path) < nbNodes
                               /\ successor[z] # None
        /\ pc = "dp_done" =>
              /\ dpResult.status = "returned"
              /\ Len(dpResult.path) <= nbNodes
              /\ dpResult.path[1] = nodesList[origin_node]
              /\ dpResult.path[Len(dpResult.path)] = nodesList[destination_node]
              /\ IsPath(dpResult.path)
              /\ PathCost(dpResult.path) = C_z[origin_node]
              /\ dpResult.cost = C_z[origin_node]

\* a returned path through an intermediate node where the origin has several
\* paths to the destination
C2_Witness ==
    /\ pc = "dp_done" /\ NoNegCycle
    /\ dpResult.status = "returned"
    /\ Len(dpResult.path) >= 3
    /\ Cardinality(Paths(nodesList[origin_node], nodesList[destination_node])) > 1

\* C3: with no negative cycle, whatever the destination and the order of the
\* arcs, the relaxation loop ends within nbNodes passes, the pass without
\* update included: no pass beyond the nbNodes-th starts.
C3_PassesBounded ==
    (passes > nbNodes \/ (pc = "dp_while" /\ passes = nbNodes /\ update)) => ~NoNegCycle

\* the loop ends after exactly nbNodes passes on a graph of three nodes or more
C3_Witness ==
    /\ pc = "dp_while" /\ ~update /\ NoNegCycle
    /\ passes = nbNodes /\ nbNodes >= 3

\* C4 (as claimed): once more than nbNodes passes have run, as they do on a
\* negative-cost cycle, the query has failed with NonConvergenceError.
C4_NonConvergenceError ==
    passes > nbNodes => dpResult.status = "NonConvergenceError"

\* C5 (as claimed): when the relaxation has converged and C_z[origin_node] is
\* still infinite, the query fails with NoPathError.
C5_NoPathError ==
    (pc = "dp_done" /\ C_z[origin_node] = Inf) => dpResult.status = "NoPathError"

----------------------------------------------------------------------------
(* Properties of shortestPathLP and mincostflow                            *)

C7_ExampleShortestPath ==
    (IsExample /\ origin_node = 1 /\ destination_node = 4)
    =>  /\ pc = "dp_done" => dpResult = [status |-> "returned",
                                         path |-> <<"s", "u", "t">>, cost |-> 5]
        /\ pc = "pf_done" => /\ pfResult.status = "returned"
                             /\ pfResult.path = <<"s", "u", "t">>
                             /\ PathCost(pfResult.path) = 5

C7_Witness ==
    /\ IsExample /\ origin_node = 1 /\ destination_node = 4
    /\ pc = "pf_done"
    /\ dpResult.status = "returned"
    /\ pfResult.status = "returned"

\* C8: on example_pb with q = [-1,0,0,1], mincostflow ends with status OPTIMAL
\* and returns the flow 1 on (s,u) and (u,t) and 0 on the other arcs, which is
\* the only feasible flow of least cost.
C8_ExampleFlow ==
    (IsExample /\ q = <<0 - 1, 0, 0, 1>>)
    =>  /\ pc = "lp_mcf" => OptimalFlows(q) = {<<1, 0, 0, 1, 0>>}
        /\ pc \in {"pf_begin", "pf_while", "pf_done"} =>
              /\ status = "OPTIMAL"
              /\ mu = <<1, 0, 0, 1, 0>>

C8_Witness ==
    /\ IsExample /\ q = <<0 - 1, 0, 0, 1>>
    /\ pc = "pf_begin"
    /\ status = "OPTIMAL"

----------------------------------------------------------------------------
(* Properties of pathfinder                                                *)

\* m is a flow that satisfies conservation with net demand -1 at node s, +1 at
\* node t and 0 elsewhere.  pathfinder reads a flow through the test of line
\* 591 only, so a flow with fractional values is the integer flow D times it:
\* m is D times a unit flow, for some D.
UnitFlow(m, s, t) ==
    \E D \in 1..MaxFlow : \A n \in 1..nbNodes :
        NetFlow(m, n) = (IF n = t THEN D ELSE 0) - (IF n = s THEN D ELSE 0)

Support(m) == {arcsList[a] : a \in {b \in 1..nbArcs : m[b] > 0}}

\* no loop along arcs that carry flow
AcyclicSupport(m) ==
    \A x \in Range(nodesList) :
        \A p \in PathsIn(Support(m), x, nbNodes) : Len(p) > 1 => p[Len(p)] # x

\* C9: for a flow with acyclic support that satisfies conservation with unit
\* net demand from the source to the sink, pathfinder returns a path of at most
\* nbNodes nodes that starts at the source, ends at the sink and goes along
\* arcs only.
C9_PathFromFlow ==
    (pc = "pf_done" /\ sind # tind /\ UnitFlow(mu, sind, tind) /\ AcyclicSupport(mu))
    =>  /\ pfResult.status = "returned"
        /\ Len(pfResult.path) <= nbNodes
        /\ pfResult.path[1] = nodesList[sind]
        /\ pfResult.path[Len(pfResult.path)] = nodesList[tind]
        /\ IsPath(pfResult.path)

\* a returned path of two arcs where two arcs that carry flow leave the source
C9_Witness ==
    /\ pc = "pf_done" /\ sind # tind /\ UnitFlow(mu, sind, tind) /\ AcyclicSupport(mu)
    /\ pfResult.status = "returned"
    /\ Len(pfResult.path) >= 3
    /\ Cardinality({xy \in Support(mu) : xy[1] = nodesList[sind]}) >= 2

\* C10 (as claimed): for every flow that satisfies conservation with unit net
\* demand from s to t, pathfinder gets from s to t: it is never at a node
\* that no active arc leaves.
C10_ReachesSink ==
    (pc = "pf_done" /\ sind # tind /\ UnitFlow(mu, sind, tind))
        => pfResult.status = "returned"

\* C11 (as claimed): when pathfinder has stopped at a node other than the
\* sink that no active arc leaves, it has failed with MalformedFlowError and
\* has returned no path.
C11_MalformedFlowError ==
    (pc = "pf_done" /\ current # nodesList[tind]
       /\ Candidates(arcs_active, current) = {})
    =>  /\ pfResult.status = "MalformedFlowError"
        /\ pfResult.path = <<>>

\* the number of executions of the loop body of lines 595-598: each appends
\* one node to path
LoopSteps == Len(path) - 1

\* C12: for every flow vector, also one whose support has cycles, and every
\* source and sink, the loop steps done and the arcs still active never add
\* up to more than nbArcs: pathfinder has returned or failed after at most
\* nbArcs loop steps.
C12_StepsBounded ==
    pc \in {"pf_while", "pf_done"} =>
        /\ LoopSteps <= nbArcs
        /\ LoopSteps + Len(arcs_active) <= nbArcs

\* a call that used every arc of a graph, around a cycle of arcs that carry
\* flow, before it stopped
C12_Witness ==
    /\ pc = "pf_done"
    /\ nbArcs >= 3
    /\ LoopSteps = nbArcs
    /\ \E i, j \in 1..Len(path) : i < j /\ path[i] = path[j]

\* a path that visits no node twice
IsSimple(p) == \A i, j \in 1..Len(p) : p[i] = p[j] => i = j

\* the flow that is 1 on the arcs of the path p and 0 on the other arcs
Indicator(p) ==
    [a \in 1..nbArcs |-> IF \E i \in 1..(Len(p) - 1) : arcsList[a] = <<p[i], p[i+1]>>
                         THEN 1 ELSE 0]

\* C13: for every simple path z1..zK of the graph, pathfinder called with the
\* flow that is 1 on the arcs of the path and 0 elsewhere, from z1 to zK,
\* returns exactly that path; on example_pb, mu = [1,1,0,0,1] from s to t
\* gives [s,u,v,t].
C13_RoundTrip ==
    pc = "pf_done" =>
        /\ \A p \in Paths(nodesList[sind], nodesList[tind]) :
               (IsSimple(p) /\ mu = Indicator(p))
                   => pfResult = [status |-> "returned", path |-> p, cost |-> 0]
        /\ (IsExample /\ mu = <<1, 1, 0, 0, 1>> /\ sind = 1 /\ tind = 4)
               => pfResult.path = <<"s", "u", "v", "t">>

\* the notebook's call: the flow along s,u,v,t on example_pb
C13_Witness ==
    /\ pc = "pf_done"
    /\ IsExample /\ sind = 1 /\ tind = 4
    /\ mu = Indicator(<<"s", "u", "v", "t">>)
    /\ mu = <<1, 1, 0, 0, 1>>
    /\ pfResult.status = "returned"

----------------------------------------------------------------------------
(* Properties of the constructor and of Nabla                              *)

\* C14 (as claimed): for every constructed graph, the matrix that Nabla()
\* returns has nbArcs rows of nbNodes entries, and the row of every arc (x,y)
\* has exactly two nonzero entries, -1 in the column of x and +1 in the column
\* of y, and sums to zero.
C14_NablaRows ==
    (pc = "nabla_done" /\ nablaResult.status = "returned")
    =>  LET M == nablaResult.matrix
        IN  /\ Len(M) = nbArcs
            /\ \A a \in 1..nbArcs :
                  LET entry(n) == M[a][n]
                  IN  /\ Len(M[a]) = nbNodes
                      /\ Cardinality({n \in 1..nbNodes : M[a][n] # 0}) = 2
                      /\ M[a][nodesDict[arcsList[a][1]]] = 0 - 1
                      /\ M[a][nodesDict[arcsList[a][2]]] = 1
                      /\ Sum(entry, 1, nbNodes) = 0

\* the arc lists the three construction errors are about
HasDuplicateArc(al) == \E a, b \in 1..Len(al) : a # b /\ al[a] = al[b]
HasUnknownNode(nl, al) == \E a \in 1..Len(al) : al[a][1] \notin Range(nl) \/ al[a][2] \notin Range(nl)
HasSelfLoop(al) == \E a \in 1..Len(al) : al[a][1] = al[a][2]

\* no object: none of the fields is set
NoGraph == nbNodes = 0 /\ nbArcs = 0 /\ nodesList = <<>> /\ arcsList = <<>>

\* C15 (as claimed): the constructor called with an arc list in which a pair
\* occurs twice has failed with DuplicateArcError and has built no graph.
C15_DuplicateArcError ==
    (pc # "new" /\ HasDuplicateArc(ctorArgs[2]))
        => (ctorResult = "DuplicateArcError" /\ NoGraph)

\* C16 (as claimed): the constructor called with an arc that names a label
\* absent from the node list has failed with UnknownNodeError, at construction
\* and not at the later lookup, and has built no graph.
C16_UnknownNodeError ==
    (pc # "new" /\ HasUnknownNode(ctorArgs[1], ctorArgs[2]))
        => (ctorResult = "UnknownNodeError" /\ NoGraph)

\* C17 (as claimed): the constructor called with an arc whose origin is its
\* destination has failed with SelfLoopError and has built no graph.
C17_SelfLoopError ==
    (pc # "new" /\ HasSelfLoop(ctorArgs[2]))
        => (ctorResult = "SelfLoopError" /\ NoGraph)

----------------------------------------------------------------------------
(* Properties of a direct mincostflow call                                 *)

\* C18 (as claimed): for a demand vector whose entries do not add up to zero,
\* mincostflow has failed with UnbalancedDemandError and the solver has not
\* run: no status of the LP has been read.
C18_UnbalancedDemandError ==
    (pc = "mcf_done" /\ Total(q) # 0)
    =>  /\ mcfResult.status = "UnbalancedDemandError"
        /\ status = "none"

\* C19 (as claimed): after status INFEASIBLE mincostflow has failed with
\* InfeasibleError, after status UNBOUNDED with UnboundedError (two failures
\* that differ), and after no status other than OPTIMAL has it returned a pair.
C19_TypedFailures ==
    pc = "mcf_done" =>
        /\ status = "INFEASIBLE" => mcfResult.status = "InfeasibleError"
        /\ status = "UNBOUNDED" => mcfResult.status = "UnboundedError"
        /\ status # "OPTIMAL" => mcfResult.status # "returned"

\* the flow of m into node n and out of node n, read off the arcs
InFlow(m, n) == LET term(a) == IF arcsList[a][2] = nodesList[n] THEN m[a] ELSE 0
                IN  Sum(term, 1, nbArcs)
OutFlow(m, n) == LET term(a) == IF arcsList[a][1] = nodesList[n] THEN m[a] ELSE 0
                 IN  Sum(term, 1, nbArcs)

\* a regular network: balanced demand, every supply node joined by a path to
\* every demand node, no loop of negative cost
Regular(qq) ==
    /\ Total(qq) = 0
    /\ \A o, d \in 1..nbNodes : (qq[o] < 0 /\ qq[d] > 0) => Reaches(o, d)
    /\ NoNegCycle

\* C20: on a regular network mincostflow returns a pair (p, mu) with mu_a >= 0
\* on every arc, inflow minus outflow of mu equal to q_z at every node z, and
\* p_y - p_x <= c_xy on every arc (x,y).
C20_FeasiblePair ==
    (pc = "mcf_done" /\ Regular(q))
    =>  /\ mcfResult.status = "returned"
        /\ LET p == mcfResult.p
               m == mcfResult.mu
           IN  /\ \A a \in 1..nbArcs : m[a] >= 0
               /\ \A n \in 1..nbNodes : InFlow(m, n) - OutFlow(m, n) = q[n]
               /\ \A a \in 1..nbArcs :
                      p[nodesDict[arcsList[a][2]]] - p[nodesDict[arcsList[a][1]]] <= costsList[a]

\* a returned pair for a demand that every node takes part in, with flow on
\* two arcs and potentials that differ
C20_Witness ==
    /\ pc = "mcf_done" /\ Regular(q)
    /\ mcfResult.status = "returned"
    /\ \A n \in 1..nbNodes : q[n] # 0
    /\ Cardinality({a \in 1..nbArcs : mcfResult.mu[a] > 0}) >= 2
    /\ \E n \in 1..nbNodes : mcfResult.p[n] # mcfResult.p[1]

\* p_y - p_x along the arc at position a
Tension(p, a) == p[nodesDict[arcsList[a][2]]] - p[nodesDict[arcsList[a][1]]]

\* C21: complementary slackness.  On a regular network the pair (p, mu) that
\* mincostflow returns has p_y - p_x = c_a on every arc a = (x,y) with
\* mu_a > 0.
C21_ComplementarySlackness ==
    (pc = "mcf_done" /\ Regular(q))
    =>  /\ mcfResult.status = "returned"
        /\ \A a \in 1..nbArcs :
               mcfResult.mu[a] > 0 => Tension(mcfResult.p, a) = costsList[a]

\* a returned pair with an arc that carries flow and an arc that carries none
\* and is slack
C21_Witness ==
    /\ pc = "mcf_done" /\ Regular(q)
    /\ mcfResult.status = "returned"
    /\ \E a \in 1..nbArcs : mcfResult.mu[a] > 0
    /\ \E a \in 1..nbArcs : /\ mcfResult.mu[a] = 0
                            /\ Tension(mcfResult.p, a) < costsList[a]

\* C22: mincostflow called twice in a row on the same graph with the same q
\* returns the same (p, mu), or fails the same way, both times; the first call
\* has left the graph and q as they were.
C22_SameResultTwice ==
    (pc = "mcf_done" /\ calls = 2)
    =>  /\ mcfResult = firstResult
        /\ <<nodesList, arcsList, costsList>> = ctorArgs
        /\ LP(q) = solved.lp

\* a second call that returned a pair where the LP has several optimal pairs
C22_Witness ==
    /\ pc = "mcf_done" /\ calls = 2
    /\ mcfResult.status = "returned"
    /\ Cardinality(Answers(q)) > 1

----------------------------------------------------------------------------
(* Properties of queries that share one graph                              *)

\* the fields of the object are what the constructor set them to
GraphIntact ==
    /\ <<nodesList, arcsList, costsList>> = ctorArgs
    /\ nbNodes = Len(ctorArgs[1]) /\ nbArcs = Len(ctorArgs[2])
    /\ nodesDict = ZipDict(ctorArgs[1]) /\ arcsDict = ZipDict(ctorArgs[2])

\* what pathfinder(m, s, t) returns when it runs alone on the constructed
\* graph
RECURSIVE PathfinderFrom(_, _, _, _)
PathfinderFrom(active, cur, pth, t) ==
    IF cur = t THEN [status |-> "returned", path |-> pth, cost |-> 0]
    ELSE IF Candidates(active, cur) = {} THEN [status |-> "StopIteration", path |-> <<>>, cost |-> 0]
    ELSE LET xy == Pick(active, cur)
         IN  PathfinderFrom(Remove(active, xy), xy[2], Append(pth, xy[2]), t)

PathfinderAlone(m, s, t) ==
    LET nl == ctorArgs[1]
        al == ctorArgs[2]
    IN  PathfinderFrom(SelectSeq(al, LAMBDA a : IsActive(m[ZipDict(al)[a]])),
                       nl[s], <<nl[s]>>, nl[t])

\* what shortestPathDP(o, d) returns when it runs alone on the constructed
\* graph: the passes over the arcs, then the walk along the successors
RECURSIVE RelaxFrom(_, _)
RelaxFrom(st, i) ==
    LET nl == ctorArgs[1]
        al == ctorArgs[2]
        cl == ctorArgs[3]
    IN  IF i > Len(al) THEN st
        ELSE LET x    == al[i][1]
                 y    == al[i][2]
                 xind == ZipDict(nl)[x]
                 yind == ZipDict(nl)[y]
                 d    == cl[ZipDict(al)[<<x, y>>]]
             IN  IF RelaxTest(d, st.C[yind], st.C[xind])
                 THEN RelaxFrom([C    |-> [st.C EXCEPT ![xind] = RelaxCost(d, st.C[yind])],
                                 succ |-> [st.succ EXCEPT ![x] = RelaxSuccessor(x, y)],
                                 upd  |-> TRUE], i + 1)
                 ELSE RelaxFrom(st, i + 1)

RECURSIVE PassesFrom(_)
PassesFrom(st) == IF st.upd THEN PassesFrom(RelaxFrom([st EXCEPT !.upd = FALSE], 1)) ELSE st

RECURSIVE WalkFrom(_, _, _, _, _)
WalkFrom(succ, zz, pth, dest, cost) ==
    IF zz \notin DOMAIN succ THEN [status |-> "KeyError", path |-> <<>>, cost |-> 0]
    ELSE IF succ[zz] # dest THEN WalkFrom(succ, succ[zz], Append(pth, succ[zz]), dest, cost)
    ELSE [status |-> "returned", path |-> Append(pth, dest), cost |-> cost]

ShortestPathDPAlone(o, d) ==
    LET nl == ctorArgs[1]
        st == PassesFrom([C    |-> [i \in 1..Len(nl) |-> IF i = d THEN 0 ELSE Inf],
                          succ |-> [n \in Range(nl) |-> None],
                          upd  |-> TRUE])
    IN  WalkFrom(st.succ, nl[o], <<nl[o]>>, nl[d], st.C[o])

\* C23: while the steps of a shortestPathDP query and of a pathfinder query of
\* another thread interleave on one shared graph, no step changes the node
\* list, the arc list, the cost list or the lookups, and each query ends with
\* what it returns when it runs alone.
C23_SharedGraph ==
    /\ GraphIntact
    /\ pc = "dp_done" => dpResult = ShortestPathDPAlone(origin_node, destination_node)
    /\ t2.pc = "pf_done" => t2.result = PathfinderAlone(t2.mu, t2.sind, t2.tind)

\* both queries have ended, the pathfinder query after two steps or more
\* and the shortestPathDP query with a path of two arcs
C23_Witness ==
    /\ pc = "dp_done" /\ t2.pc = "pf_done"
    /\ dpResult.status = "returned" /\ Len(dpResult.path) >= 3
    /\ t2.result.status = "returned" /\ Len(t2.result.path) >= 3

----------------------------------------------------------------------------
(* Properties of the relaxation loop of shortestPathDP                     *)

\* the while loop of lines 912-919 has ended: its test has failed or is about
\* to fail
LoopExited == pc \notin {"idle", "dp_for"} /\ ~update

\* no arc (x,y) has cost(x,y) + C[y] < C[x]
NothingToRelax ==
    \A a \in 1..nbArcs :
        C_z[nodesDict[arcsList[a][1]]] <= Plus(costsList[a], C_z[nodesDict[arcsList[a][2]]])

\* C24: the relaxation loop ends at the end of a full pass that made no
\* update and not before: once it has ended, C[x] <= cost(x,y) + C[y] on every
\* arc, and from then on no pass starts and no cost and no successor changes.
C24_StopsAtFixedPoint ==
    /\ [](LoopExited => (passes >= 1 /\ NothingToRelax))
    /\ [][LoopExited => (passes' = passes /\ C_z' = C_z /\ successor' = successor)]_vars

\* the loop ended after three passes or more, with the origin at a finite cost
C24_Witness ==
    /\ LoopExited
    /\ pc = "dp_follow"
    /\ passes >= 3
    /\ C_z[origin_node] < Inf /\ origin_node # destination_node

\* the least cost of a path from node x to node d, np.inf where there is none:
\* a value that the set of arcs and their costs fix, whatever the order of
\* arcsList
Distance(x, d) == IF Reaches(x, d) THEN MinPathCost(x, d) ELSE Inf

\* C25: on a graph with no negative cycle, the costs C with which the
\* relaxation loop ends are the same for every order of the arcs: C[x] is the
\* least cost of a path from x to the destination (np.inf where there is
\* none), and the reported cost is C[origin].
C25_OrderIndependent ==
    (LoopExited /\ NoNegCycle)
    =>  /\ \A x \in 1..nbNodes : C_z[x] = Distance(x, destination_node)
        /\ (pc = "dp_done" /\ dpResult.status = "returned")
               => dpResult.cost = Distance(origin_node, destination_node)

\* example_pb with its arcs in another order than the notebook's, where the
\* loop ends after another number of passes than the notebook's three
C25_Witness ==
    /\ LoopExited /\ pc = "dp_done"
    /\ nodesList = ExampleNodes /\ arcsList # ExampleArcs
    /\ origin_node = 1 /\ destination_node = 4
    /\ passes # 3
    /\ dpResult.status = "returned"

\* C26 (as claimed): for every origin and destination, equal or not, the
\* demand vector that shortestPathLP hands to mincostflow sums to 0 and has -1
\* at the origin, +1 at the destination and 0 at every other node.
C26_BalancedDemand ==
    pc = "lp_mcf" =>
        /\ Total(q) = 0
        /\ q[origin_node] = 0 - 1
        /\ q[destination_node] = 1
        /\ \A n \in 1..nbNodes : n \notin {origin_node, destination_node} => q[n] = 0

\* C27 (as claimed): with origin = destination on a graph with no negative
\* cycle, shortestPathDP returns the one-node path [origin] with cost 0.
C27_OriginIsDestination ==
    (pc = "dp_done" /\ origin_node = destination_node /\ NoNegCycle)
        => dpResult = [status |-> "returned", path |-> <<nodesList[origin_node]>>, cost |-> 0]

\* the relaxation is under way: between line 911 and the end of the while loop
Relaxing == pc \in {"dp_while", "dp_for"}

\* C28: in every state of the relaxation on a graph with no negative cycle,
\* C[destination] = 0 and the destination has no successor, every node other
\* than the destination with a finite cost has a successor y along an arc
\* (x,y) with C[x] >= cost(x,y) + C[y], and every node with an infinite cost
\* has no successor; and no step of the relaxation makes any C[z] larger.
C28_RelaxationInvariants ==
    /\ []((Relaxing /\ NoNegCycle) =>
            /\ C_z[destination_node] = 0
            /\ successor[nodesList[destination_node]] = None
            /\ \A x \in 1..nbNodes :
                  LET y == successor[nodesList[x]]
                  IN  /\ (x # destination_node /\ C_z[x] < Inf) =>
                             /\ y # None
                             /\ <<nodesList[x], y>> \in ArcSet
                             /\ C_z[x] >= Plus(ArcCost(nodesList[x], y), C_z[nodesDict[y]])
                      /\ C_z[x] = Inf => y = None)
    /\ [][Relaxing => \A x \in 1..nbNodes : C_z'[x] <= C_z[x]]_vars

\* a state of the relaxation in which a cost is finite and above its final
\* value: a later step lowers it
C28_Witness ==
    /\ Relaxing /\ NoNegCycle
    /\ passes >= 2
    /\ \E x \in 1..nbNodes : /\ x # destination_node
                             /\ C_z[x] < Inf
                             /\ C_z[x] > Distance(x, destination_node)

----------------------------------------------------------------------------
(* Properties of the lookups and of pathfinder's use of the arcs            *)

\* C29 (as claimed): for every graph that the constructor accepts,
\* nodesDict[nodesList[i]] = i for every node index i and
\* arcsDict[arcsList[a]] = a for every arc index a.
C29_LookupsAgree ==
    ctorResult = "built" =>
        /\ \A i \in 1..nbNodes : nodesDict[nodesList[i]] = i
        /\ \A a \in 1..nbArcs : arcsDict[arcsList[a]] = a

\* C30: every arc along a path that pathfinder returns carries mu_a > 0 and
\* occurs once along the path; with source = sink the path is [source] and no
\* arc has been taken out of arcs_active.
C30_ArcsUsedOnce ==
    (pc = "pf_done" /\ pfResult.status = "returned")
    =>  LET pth == pfResult.path
        IN  /\ \A i \in 1..(Len(pth) - 1) :
                  /\ <<pth[i], pth[i+1]>> \in ArcSet
                  /\ mu[arcsDict[<<pth[i], pth[i+1]>>]] > 0
            /\ \A i, j \in 1..(Len(pth) - 1) :
                  (pth[i] = pth[j] /\ pth[i+1] = pth[j+1]) => i = j
            /\ sind = tind =>
                  /\ pth = <<nodesList[sind]>>
                  /\ Len(arcs_active) = Cardinality({a \in 1..nbArcs : mu[a] > 0})

\* a returned path that comes back to a node it has visited, and a call with
\* source = sink is covered by the formula's last conjunct
C30_Witness ==
    /\ pc = "pf_done" /\ pfResult.status = "returned"
    /\ Len(pfResult.path) >= 4
    /\ \E i, j \in 1..Len(pfResult.path) : i < j /\ pfResult.path[i] = pfResult.path[j]

====
